---- MODULE Spec2Model ----
(***************************************************************************)
(* Model of the tiered file I/O layer of mito2:                            *)
(*   - merge_ranges        (sst/parquet/helper.rs)                         *)
(*   - MetadataLoader.load (sst/parquet/metadata.rs)                       *)
(*   - fetch_byte_ranges   (sst/parquet/helper.rs)                         *)
(*   - WriteCache.upload   (cache/write_cache.rs)                          *)
(* Each component has its own specification (SpecMerge, SpecLoad,          *)
(* SpecFetch, SpecUpload); the variables of the other components stay      *)
(* idle.                                                                   *)
(***************************************************************************)
EXTENDS Integers, Sequences, FiniteSets, TLC

VARIABLES
    \* merge_ranges: arguments, locals and position
    raw_ranges, coalesce, max_range_size, ranges, ret, start_idx, end_idx,
    range_end, mpc,
    \* merge_ranges: for each element pushed to ret, the values of start_idx
    \* and end_idx at the push
    windows,
    \* the parquet file MetadataLoader.load is called on: its length, whether
    \* its last 8 bytes decode as a footer, the metadata length the footer
    \* declares, whether the metadata bytes decode
    actual_size, footer_valid, declared_len, metadata_valid,
    \* MetadataLoader: the file_size field (the caller's hint)
    hint,
    \* MetadataLoader.load: locals, I/O issued, outcome and position
    file_size, buffer, data, reads, stats, result, reason, io_failed, lpc,
    \* MetadataLoader.load: the value of Ok(..) and the file of the error
    metadata, err_file,
    \* fetch_byte_ranges: whether the store is blocking-capable, whether a
    \* tokio runtime is current, the ranges argument, the read of each
    \* range, the order reads were issued and completed in, the Ok value,
    \* the outcome and the position
    blocking, has_runtime, fetch_ranges, range_reads, issued, completion,
    fetched, fresult, fpc,
    \* WriteCache: the objects of the local store and of the remote stores
    local_store, remote_stores,
    \* WriteCache.upload: the Upload, the loop position, the transfer futures,
    \* the I/O issued, the outcome and the position
    parts, part_idx, handles, local_reads, remote_ops, uresult, not_found, upc,
    \* UploadPartWriter: the writer, the calls made on it in call order with
    \* their arguments, the UploadPart finish returned and the position
    part_writer, writer_calls, finished_part, wpc

mergeVars == <<raw_ranges, coalesce, max_range_size, ranges, ret, start_idx,
               end_idx, range_end, mpc, windows>>

fileVars == <<actual_size, footer_valid, declared_len, metadata_valid, hint>>

loadVars == <<file_size, buffer, data, reads, stats, result, reason,
              io_failed, lpc, metadata, err_file>>

fetchVars == <<blocking, has_runtime, fetch_ranges, range_reads, issued,
               completion, fetched, fresult, fpc>>

uploadVars == <<local_store, remote_stores, parts, part_idx, handles,
                local_reads, remote_ops, uresult, not_found, upc>>

writerVars == <<part_writer, writer_calls, finished_part, wpc>>

vars == <<mergeVars, fileVars, loadVars, fetchVars, uploadVars, writerVars>>

\* ------------------------------------------------------------------------
\* Bounds of the model
\* ------------------------------------------------------------------------

\* Byte offsets of ranges are drawn from 0..MaxPos.
MaxPos == 2

\* raw_ranges holds at most MaxRanges ranges.
MaxRanges == 3

\* File sizes and declared metadata lengths are drawn from 0..MaxNear and
\* from within MaxNear bytes of the prefetch window's boundaries.
MaxNear == 2

\* An Upload holds at most MaxParts parts.
MaxParts == 2

\* An UploadPart holds at most MaxFiles files.
MaxFiles == 1

\* fetch_byte_ranges is called with at most MaxFetchRanges ranges.
MaxFetchRanges == 2

\* At most MaxCalls calls are made on an UploadPartWriter before finish.
MaxCalls == 3

\* ------------------------------------------------------------------------
\* Helpers
\* ------------------------------------------------------------------------

\* Faulty variant of Max: the window end stays the first range's end.
MaxTakesFirst(a, b) == a

\* Faulty variant of Max: the window end becomes the candidate's own end.
MaxTakesSecond(a, b) == b

Max(a, b) == IF a >= b THEN a ELSE b

Min(a, b) == IF a <= b THEN a ELSE b

\* Option<T>: None is the empty sequence, Some(x) the sequence of x alone.
None == <<>>

Some(x) == <<x>>

\* Option::unwrap
Unwrap(o) == o[1]

\* std::ops::Range<usize>: half-open [start, end)
Range(s, e) == [start |-> s, end |-> e]

\* The ranges a caller can pass: start <= end, both within 0..MaxPos.
RangeSet == {Range(s, e) : s \in 0..MaxPos, e \in 0..MaxPos} \cap
            {r \in [start : 0..MaxPos, end : 0..MaxPos] : r.start <= r.end}

SeqsUpTo(S, n) == UNION {[1..k -> S] : k \in 0..n}

\* ------------------------------------------------------------------------
\* merge_ranges
\* ------------------------------------------------------------------------

\* Every outcome of ranges.sort_unstable_by_key(|range| range.start): a
\* permutation of the input ordered by start; the order of ranges with equal
\* start is unspecified for an unstable sort.
RECURSIVE SortUnstableByStart(_)
SortUnstableByStart(s) ==
    IF s = <<>>
    THEN {<<>>}
    ELSE LET n == Len(s)
             least == {i \in 1..n : \A j \in 1..n : s[i].start <= s[j].start}
             without(i) == [j \in 1..(n - 1) |-> IF j < i THEN s[j] ELSE s[j + 1]]
         IN UNION {{<<s[i]>> \o t : t \in SortUnstableByStart(without(i))} :
                   i \in least}

\* Faulty variant of GapOk: an underflowing checked_sub counts as a failed test
\* (unwrap_or(false)).
GapOkUnwrapFalse(cand, rend, gap) ==
    IF cand.start >= rend THEN cand.start - rend <= gap ELSE FALSE

\* ranges[end_idx].start.checked_sub(range_end).map(|delta| delta <= coalesce)
\*     .unwrap_or(true)
GapOk(cand, rend, gap) ==
    IF cand.start >= rend THEN cand.start - rend <= gap ELSE TRUE

\* Faulty variant of SizeOk: the cap is not tested.
SizeOkAlways(first, rend, cap) == TRUE

\* Faulty variant of SizeOk: strict comparison with the cap.
SizeOkStrict(first, rend, cap) == rend - first.start < cap

\* range_end - ranges[start_idx].start <= max_range_size
SizeOk(first, rend, cap) == rend - first.start <= cap

\* Faulty variant of InnerCond: the cap is tested on the window as it would
\* be after absorbing the candidate.
InnerCondCapAfter ==
    /\ end_idx # Len(ranges)
    /\ (IF ranges[end_idx + 1].end > range_end
        THEN ranges[end_idx + 1].end
        ELSE range_end) - ranges[start_idx + 1].start <= max_range_size
    /\ GapOk(ranges[end_idx + 1], range_end, coalesce)

\* The condition of the inner while loop.
InnerCond ==
    /\ end_idx # Len(ranges)
    /\ SizeOk(ranges[start_idx + 1], range_end, max_range_size)
    /\ GapOk(ranges[end_idx + 1], range_end, coalesce)

\* Entry: the empty check, the copy and the sort, the initialisation of locals.
MergeStart ==
    /\ mpc = "call"
    /\ IF raw_ranges = <<>>
       THEN /\ ret' = <<>>
            /\ mpc' = "done"
            /\ UNCHANGED <<ranges, start_idx, end_idx>>
       ELSE /\ ranges' \in SortUnstableByStart(raw_ranges)
            /\ ret' = <<>>
            /\ start_idx' = 0
            /\ end_idx' = 1
            /\ mpc' = "outer"
    /\ UNCHANGED <<raw_ranges, coalesce, max_range_size, range_end, windows>>
    /\ UNCHANGED <<fileVars, loadVars, fetchVars, uploadVars,
                   writerVars>>

\* Head of the outer loop: a new window starts at ranges[start_idx].
OuterLoop ==
    /\ mpc = "outer"
    /\ IF start_idx # Len(ranges)
       THEN /\ range_end' = ranges[start_idx + 1].end
            /\ mpc' = "inner"
       ELSE /\ mpc' = "done"
            /\ UNCHANGED range_end
    /\ UNCHANGED <<raw_ranges, coalesce, max_range_size, ranges, ret,
                   start_idx, end_idx, windows>>
    /\ UNCHANGED <<fileVars, loadVars, fetchVars, uploadVars,
                   writerVars>>

\* Body of the inner loop: the candidate ranges[end_idx] joins the window.
Absorb ==
    /\ mpc = "inner"
    /\ InnerCond
    /\ range_end' = Max(range_end, ranges[end_idx + 1].end)
    /\ end_idx' = end_idx + 1
    /\ UNCHANGED <<raw_ranges, coalesce, max_range_size, ranges, ret,
                   start_idx, mpc, windows>>
    /\ UNCHANGED <<fileVars, loadVars, fetchVars, uploadVars,
                   writerVars>>

\* Faulty variant of Emit: end_idx += 1 is missing.
EmitKeepsEndIdx ==
    /\ mpc = "inner"
    /\ ~InnerCond
    /\ ret' = Append(ret, Range(ranges[start_idx + 1].start, range_end))
    /\ windows' = Append(windows, [start_idx |-> start_idx,
                                   end_idx |-> end_idx])
    /\ start_idx' = end_idx
    /\ mpc' = "outer"
    /\ UNCHANGED <<raw_ranges, coalesce, max_range_size, ranges, range_end,
                   end_idx>>
    /\ UNCHANGED <<fileVars, loadVars, fetchVars, uploadVars,
                   writerVars>>

\* Faulty variant of Emit: the pushed window is cut at max_range_size.
EmitClamped ==
    /\ mpc = "inner"
    /\ ~InnerCond
    /\ ret' = Append(ret, Range(ranges[start_idx + 1].start,
                                Min(range_end, ranges[start_idx + 1].start
                                                   + max_range_size)))
    /\ windows' = Append(windows, [start_idx |-> start_idx,
                                   end_idx |-> end_idx])
    /\ start_idx' = end_idx
    /\ end_idx' = end_idx + 1
    /\ mpc' = "outer"
    /\ UNCHANGED <<raw_ranges, coalesce, max_range_size, ranges, range_end>>
    /\ UNCHANGED <<fileVars, loadVars, fetchVars, uploadVars,
                   writerVars>>

\* Exit of the inner loop: the window is pushed and the next one starts at
\* the candidate.
Emit ==
    /\ mpc = "inner"
    /\ ~InnerCond
    /\ ret' = Append(ret, Range(ranges[start_idx + 1].start, range_end))
    /\ windows' = Append(windows, [start_idx |-> start_idx,
                                   end_idx |-> end_idx])
    /\ start_idx' = end_idx
    /\ end_idx' = end_idx + 1
    /\ mpc' = "outer"
    /\ UNCHANGED <<raw_ranges, coalesce, max_range_size, ranges, range_end>>
    /\ UNCHANGED <<fileVars, loadVars, fetchVars, uploadVars,
                   writerVars>>

\* The inner while loop as a function of the sorted list, the window's first
\* index, the candidate's index and the window's end: the values of end_idx
\* and range_end when the loop is left.
RECURSIVE InnerWhile(_, _, _, _)
InnerWhile(rs, s, e, rend) ==
    IF /\ e # Len(rs)
       /\ SizeOk(rs[s + 1], rend, max_range_size)
       /\ GapOk(rs[e + 1], rend, coalesce)
    THEN InnerWhile(rs, s, e + 1, Max(rend, rs[e + 1].end))
    ELSE <<e, rend>>

\* The outer while loop as a function: the value of ret when it is left.
RECURSIVE OuterWhile(_, _, _, _)
OuterWhile(rs, s, e, out) ==
    IF s # Len(rs)
    THEN LET left == InnerWhile(rs, s, e, rs[s + 1].end)
         IN OuterWhile(rs, left[1], left[1] + 1,
                       Append(out, Range(rs[s + 1].start, left[2])))
    ELSE out

\* What merge_ranges returns when the sort leaves the list in the order rs.
MergeSorted(rs) == IF rs = <<>> THEN <<>> ELSE OuterWhile(rs, 0, 1, <<>>)

\* The components that a specification does not exercise stay idle.
MergeIdle ==
    /\ raw_ranges = <<>>
    /\ coalesce = 0
    /\ max_range_size = 0
    /\ ranges = <<>>
    /\ ret = <<>>
    /\ start_idx = 0
    /\ end_idx = 0
    /\ range_end = 0
    /\ mpc = "idle"
    /\ windows = <<>>

LoadIdle ==
    /\ actual_size = 0
    /\ footer_valid = FALSE
    /\ declared_len = 0
    /\ metadata_valid = FALSE
    /\ hint = None
    /\ file_size = 0
    /\ buffer = <<>>
    /\ data = <<>>
    /\ reads = <<>>
    /\ stats = 0
    /\ result = "none"
    /\ reason = ""
    /\ io_failed = "none"
    /\ lpc = "idle"
    /\ metadata = None
    /\ err_file = None

FetchIdle ==
    /\ blocking = FALSE
    /\ has_runtime = FALSE
    /\ fetch_ranges = <<>>
    /\ range_reads = <<>>
    /\ issued = <<>>
    /\ completion = <<>>
    /\ fetched = None
    /\ fresult = "none"
    /\ fpc = "idle"

\* No UploadPartWriter was created.
WriterIdle ==
    /\ part_writer = <<>>
    /\ writer_calls = <<>>
    /\ finished_part = <<>>
    /\ wpc = "idle"

UploadIdle ==
    /\ local_store = {}
    /\ remote_stores = <<>>
    /\ parts = <<>>
    /\ part_idx = 0
    /\ handles = <<>>
    /\ local_reads = {}
    /\ remote_ops = {}
    /\ uresult = "none"
    /\ not_found = ""
    /\ upc = "idle"

\* ------------------------------------------------------------------------
\* MetadataLoader.load
\* ------------------------------------------------------------------------

\* const DEFAULT_PREFETCH_SIZE: u64 = 64 * 1024
DEFAULT_PREFETCH_SIZE == 64 * 1024

\* parquet::file::FOOTER_SIZE
FOOTER_SIZE == 8

\* A contiguous piece of the file, the bytes [lo, hi).
Chunk(lo, hi) == [lo |-> lo, hi |-> hi]

\* Length of a byte string held as a sequence of chunks.
RECURSIVE BytesLen(_)
BytesLen(b) ==
    IF b = <<>> THEN 0 ELSE (Head(b).hi - Head(b).lo) + BytesLen(Tail(b))

\* Faulty variant of HasSizeHint: the hint is ignored.
HasSizeHintNever(h) == FALSE

\* match self.file_size { Some(n) => ..., None => stat }
HasSizeHint(h) == h # None

\* Faulty variant of TooSmall: the footer size is taken one byte short.
TooSmallOffByOne(size) == size < FOOTER_SIZE - 1

\* file_size < FOOTER_SIZE as u64
TooSmall(size) == size < FOOTER_SIZE

\* Faulty variant of PrefetchSize: the window is not capped by the file size.
PrefetchSizeNoMin(size) == DEFAULT_PREFETCH_SIZE

\* DEFAULT_PREFETCH_SIZE.min(file_size)
PrefetchSize(size) == Min(DEFAULT_PREFETCH_SIZE, size)

\* Faulty variant of LenExceedsFile: the footer's own 8 bytes are forgotten.
LenExceedsFileNoFooter(metadata_len, size) == metadata_len > size

\* metadata_len + FOOTER_SIZE as u64 > file_size
LenExceedsFile(metadata_len, size) == metadata_len + FOOTER_SIZE > size

\* Faulty variant of InFirstRead: strict comparison.
InFirstReadStrict(footer_len, buffer_len) == footer_len < buffer_len

\* (footer_len as usize) <= buffer_len
InFirstRead(footer_len, buffer_len) == footer_len <= buffer_len

\* MetadataLoader.file_path
file_path == "region/file.parquet"

\* The ParquetMetaData decode_metadata builds from a well-formed block.
ParquetMetaData == [file |-> file_path, metadata_len |-> declared_len]

\* The call returns: Ok(metadata), or Err(kind { .. }) where InvalidParquet
\* carries { file: path.to_string(), reason } and OpenDal the store's error.
Return(kind, why) ==
    /\ result' = kind
    /\ reason' = why
    /\ metadata' = IF kind = "Ok" THEN Some(ParquetMetaData) ELSE None
    /\ err_file' = IF kind = "InvalidParquet" THEN Some(file_path) ELSE None
    /\ lpc' = "done"

\* Nothing is returned by this step.
NoReturn == UNCHANGED <<result, reason, metadata, err_file>>

\* Faulty variant of DecodeMetadataOk: a malformed block is accepted.
DecodeMetadataLenient(bytes, metadata_len) ==
    /\ bytes # <<>>
    /\ bytes[1].lo = actual_size - (metadata_len + FOOTER_SIZE)
    /\ bytes[Len(bytes)].hi = actual_size

\* decode_metadata on a byte string: the thrift decoder reads the metadata
\* from the first byte on, so it succeeds when the string starts at the
\* metadata block, runs contiguously to the end of the file and the block
\* itself is well formed.
DecodeMetadataOk(bytes, metadata_len) ==
    /\ bytes # <<>>
    /\ bytes[1].lo = actual_size - (metadata_len + FOOTER_SIZE)
    /\ \A i \in 1..(Len(bytes) - 1) : bytes[i].hi = bytes[i + 1].lo
    /\ bytes[Len(bytes)].hi = actual_size
    /\ metadata_valid

\* Lines 81-95: the size check, then the first range read is issued.
CheckSizeAndPrefetch(size) ==
    IF TooSmall(size)
    THEN /\ Return("InvalidParquet", "file size is smaller than footer size")
         /\ UNCHANGED reads
    ELSE /\ reads' = Append(reads, Chunk(size - PrefetchSize(size), size))
         /\ lpc' = "first_read"
         /\ NoReturn

\* load() with a size hint: no stat.
LoadWithHint ==
    /\ lpc = "start"
    /\ HasSizeHint(hint)
    /\ file_size' = Unwrap(hint)
    /\ CheckSizeAndPrefetch(Unwrap(hint))
    /\ UNCHANGED <<buffer, data, stats, io_failed>>
    /\ UNCHANGED <<fileVars, mergeVars, fetchVars, uploadVars,
                   writerVars>>

\* load() without a hint: object_store.stat(path) is issued.
LoadStat ==
    /\ lpc = "start"
    /\ ~HasSizeHint(hint)
    /\ stats' = stats + 1
    /\ lpc' = "stat"
    /\ NoReturn
    /\ UNCHANGED <<file_size, buffer, data, reads, io_failed>>
    /\ UNCHANGED <<fileVars, mergeVars, fetchVars, uploadVars,
                   writerVars>>

\* The stat fails: .context(error::OpenDalSnafu)?
StatFails ==
    /\ lpc = "stat"
    /\ io_failed' = "stat"
    /\ Return("OpenDal", "stat")
    /\ UNCHANGED <<file_size, buffer, data, reads, stats>>
    /\ UNCHANGED <<fileVars, mergeVars, fetchVars, uploadVars,
                   writerVars>>

\* The stat returns the content length.
StatReturns ==
    /\ lpc = "stat"
    /\ file_size' = actual_size
    /\ CheckSizeAndPrefetch(actual_size)
    /\ UNCHANGED <<buffer, data, stats, io_failed>>
    /\ UNCHANGED <<fileVars, mergeVars, fetchVars, uploadVars,
                   writerVars>>

\* The first read fails.
FirstReadFails ==
    /\ lpc = "first_read"
    /\ io_failed' = "first_read"
    /\ Return("OpenDal", "read")
    /\ UNCHANGED <<file_size, buffer, data, reads, stats>>
    /\ UNCHANGED <<fileVars, mergeVars, fetchVars, uploadVars,
                   writerVars>>

\* The first read returns the requested bytes: lines 96-137.
FirstReadReturns ==
    /\ lpc = "first_read"
    /\ LET buf == <<reads[1]>>
           buffer_len == BytesLen(buf)
           metadata_len == declared_len
           footer_len == metadata_len + FOOTER_SIZE
           offset == buffer_len - footer_len
       IN /\ buffer' = buf
          /\ IF ~footer_valid
             THEN /\ Return("InvalidParquet", "failed to decode footer")
                  /\ UNCHANGED <<reads, data>>
             ELSE IF LenExceedsFile(metadata_len, file_size)
             THEN /\ Return("InvalidParquet",
                            "the sum of Metadata length and Footer size is larger than file size")
                  /\ UNCHANGED <<reads, data>>
             ELSE IF InFirstRead(footer_len, buffer_len)
             THEN \* &buffer[offset..]
                  /\ data' = <<Chunk(buf[1].lo + offset, buf[1].hi)>>
                  /\ IF DecodeMetadataOk(data', metadata_len)
                     THEN Return("Ok", "")
                     ELSE Return("InvalidParquet", "failed to decode metadata")
                  /\ UNCHANGED reads
             ELSE /\ reads' = Append(reads, Chunk(file_size - footer_len,
                                                  file_size - buffer_len))
                  /\ lpc' = "second_read"
                  /\ NoReturn
                  /\ UNCHANGED data
    /\ UNCHANGED <<file_size, stats, io_failed>>
    /\ UNCHANGED <<fileVars, mergeVars, fetchVars, uploadVars,
                   writerVars>>

\* The second read fails.
SecondReadFails ==
    /\ lpc = "second_read"
    /\ io_failed' = "second_read"
    /\ Return("OpenDal", "read")
    /\ UNCHANGED <<file_size, buffer, data, reads, stats>>
    /\ UNCHANGED <<fileVars, mergeVars, fetchVars, uploadVars,
                   writerVars>>

\* Faulty variant of SecondReadReturns: the prefix is put after the first
\* window.
SecondReadReturnsAppends ==
    /\ lpc = "second_read"
    /\ data' = buffer \o <<reads[2]>>
    /\ IF DecodeMetadataOk(data', declared_len)
       THEN Return("Ok", "")
       ELSE Return("InvalidParquet", "failed to decode metadata")
    /\ UNCHANGED <<file_size, buffer, reads, stats, io_failed>>
    /\ UNCHANGED <<fileVars, mergeVars, fetchVars, uploadVars,
                   writerVars>>

\* The second read returns: data.extend(buffer), then decode: lines 138-147.
SecondReadReturns ==
    /\ lpc = "second_read"
    /\ data' = <<reads[2]>> \o buffer
    /\ IF DecodeMetadataOk(data', declared_len)
       THEN Return("Ok", "")
       ELSE Return("InvalidParquet", "failed to decode metadata")
    /\ UNCHANGED <<file_size, buffer, reads, stats, io_failed>>
    /\ UNCHANGED <<fileVars, mergeVars, fetchVars, uploadVars,
                   writerVars>>

\* ------------------------------------------------------------------------
\* fetch_byte_ranges
\* ------------------------------------------------------------------------

\* The byte the file holds at offset p.
FileByte(p) == 100 + p

\* Faulty variant of ReadRange: the end offset is read too.
ReadRangeInclusive(r) ==
    [k \in 1..(r.end - r.start + 1) |-> FileByte(r.start + k - 1)]

\* read_with(file_path).range(range.start..range.end): the bytes of the
\* half-open range.
ReadRange(r) == [k \in 1..(r.end - r.start) |-> FileByte(r.start + k - 1)]

\* Faulty variant of UseBlockingPath: the capability is ignored.
UseBlockingPathNever(capable) == FALSE

\* if object_store.info().full_capability().blocking
UseBlockingPath(capable) == capable

\* The read of one range: where it stands (stage) and the Bytes it returned.
RangeRead(r) == [range |-> r, stage |-> "new", data |-> <<>>]

\* One read per element of ranges, in the order of ranges: the items of
\* ranges.into_iter().map(..) and the futures pushed to handles.
ReadsOf(rs) == [i \in 1..Len(rs) |-> RangeRead(rs[i])]

\* The Vec<Bytes> of completed reads, in the order of the reads:
\* collect::<Result<Vec<_>>>() and the Ok value of try_join_all.
BuffersOf(rds) == [i \in 1..Len(rds) |-> rds[i].data]

\* Faulty variant of TryJoinAllReads: the join waits for every read and
\* discards errors.
JoinAllReadsDiscardErrors(rds) ==
    IF \A i \in 1..Len(rds) : rds[i].stage \in {"done", "failed"}
    THEN "Ok"
    ELSE "none"

\* futures::future::try_join_all(handles).await?: the first error ends the
\* join, success needs every read to have completed.
TryJoinAllReads(rds) ==
    IF \E i \in 1..Len(rds) : rds[i].stage = "failed" THEN "Err"
    ELSE IF \A i \in 1..Len(rds) : rds[i].stage = "done" THEN "Ok"
    ELSE "none"

\* The read futures the join still holds are dropped when it returns.
DropPendingReads(rds) ==
    [i \in 1..Len(rds) |->
        IF rds[i].stage \in {"done", "failed"}
        THEN rds[i]
        ELSE [rds[i] EXCEPT !.stage = "dropped"]]

\* After a read future moved: the join's verdict for the new reads.
ReadsJoined(rds) ==
    LET outcome == TryJoinAllReads(rds)
    IN IF outcome = "none"
       THEN /\ range_reads' = rds
            /\ UNCHANGED <<fetched, fresult, fpc>>
       ELSE /\ range_reads' = DropPendingReads(rds)
            /\ fetched' = IF outcome = "Ok" THEN Some(BuffersOf(rds)) ELSE None
            /\ fresult' = outcome
            /\ fpc' = "done"

\* fetch_byte_ranges is called: the capability picks the path. On the
\* sequential path maybe_spawn_blocking hands the closure to the blocking
\* pool when a runtime is current and runs it inline otherwise; on the
\* concurrent path the futures are pushed and the join is awaited.
FetchByteRanges ==
    /\ fpc = "start"
    /\ IF UseBlockingPath(blocking)
       THEN /\ range_reads' = ReadsOf(fetch_ranges)
            /\ fpc' = IF has_runtime THEN "spawned" ELSE "seq"
            /\ UNCHANGED <<fetched, fresult>>
       ELSE IF fetch_ranges = <<>>
       THEN ReadsJoined(ReadsOf(fetch_ranges))
       ELSE /\ range_reads' = ReadsOf(fetch_ranges)
            /\ fpc' = "join"
            /\ UNCHANGED <<fetched, fresult>>
    /\ UNCHANGED <<blocking, has_runtime, fetch_ranges, issued, completion>>
    /\ UNCHANGED <<mergeVars, fileVars, loadVars, uploadVars,
                   writerVars>>

\* The blocking pool starts the closure.
BlockingTaskRuns ==
    /\ fpc = "spawned"
    /\ fpc' = "seq"
    /\ UNCHANGED <<blocking, has_runtime, fetch_ranges, range_reads, issued,
                   completion, fetched, fresult>>
    /\ UNCHANGED <<mergeVars, fileVars, loadVars, uploadVars,
                   writerVars>>

\* The spawned task is cancelled before it runs (the runtime shuts down):
\* .map_err(new_task_join_error)?
TaskJoinFails ==
    /\ fpc = "spawned"
    /\ fresult' = "Unexpected"
    /\ fpc' = "done"
    /\ UNCHANGED <<blocking, has_runtime, fetch_ranges, range_reads, issued,
                   completion, fetched>>
    /\ UNCHANGED <<mergeVars, fileVars, loadVars, uploadVars,
                   writerVars>>

\* The closure's iterator advances: the blocking read of the next range is
\* called, or, with no range left, the collected buffers are returned.
SeqNext ==
    /\ fpc = "seq"
    /\ IF \E i \in 1..Len(range_reads) : range_reads[i].stage = "new"
       THEN LET i == CHOOSE k \in 1..Len(range_reads) :
                        /\ range_reads[k].stage = "new"
                        /\ \A j \in 1..(k - 1) : range_reads[j].stage # "new"
            IN /\ range_reads' = [range_reads EXCEPT ![i].stage = "reading"]
               /\ issued' = Append(issued, i)
               /\ fpc' = "seq_read"
               /\ UNCHANGED <<fetched, fresult>>
       ELSE /\ fetched' = Some(BuffersOf(range_reads))
            /\ fresult' = "Ok"
            /\ fpc' = "done"
            /\ UNCHANGED <<range_reads, issued>>
    /\ UNCHANGED <<blocking, has_runtime, fetch_ranges, completion>>
    /\ UNCHANGED <<mergeVars, fileVars, loadVars, uploadVars,
                   writerVars>>

\* The blocking read returns its bytes.
SeqReadReturns ==
    /\ fpc = "seq_read"
    /\ \E i \in 1..Len(range_reads) :
         /\ range_reads[i].stage = "reading"
         /\ range_reads' = [range_reads EXCEPT
                ![i].stage = "done",
                ![i].data = ReadRange(range_reads[i].range)]
         /\ completion' = Append(completion, i)
    /\ fpc' = "seq"
    /\ UNCHANGED <<blocking, has_runtime, fetch_ranges, issued, fetched,
                   fresult>>
    /\ UNCHANGED <<mergeVars, fileVars, loadVars, uploadVars,
                   writerVars>>

\* Faulty variant of SeqReadFails: the failure is recorded and the iterator
\* goes on to the next range.
SeqReadFailsContinues ==
    /\ fpc = "seq_read"
    /\ \E i \in 1..Len(range_reads) :
         /\ range_reads[i].stage = "reading"
         /\ range_reads' = [range_reads EXCEPT ![i].stage = "failed"]
    /\ fresult' = "Err"
    /\ fpc' = "seq"
    /\ UNCHANGED <<blocking, has_runtime, fetch_ranges, issued, completion,
                   fetched>>
    /\ UNCHANGED <<mergeVars, fileVars, loadVars, uploadVars,
                   writerVars>>

\* The blocking read fails: .call()? ends the closure, collect stops.
SeqReadFails ==
    /\ fpc = "seq_read"
    /\ \E i \in 1..Len(range_reads) :
         /\ range_reads[i].stage = "reading"
         /\ range_reads' = [range_reads EXCEPT ![i].stage = "failed"]
    /\ fresult' = "Err"
    /\ fpc' = "done"
    /\ UNCHANGED <<blocking, has_runtime, fetch_ranges, issued, completion,
                   fetched>>
    /\ UNCHANGED <<mergeVars, fileVars, loadVars, uploadVars,
                   writerVars>>

\* First poll of read future i (the join polls its futures in order):
\* future_read.range(range.start..range.end) is issued.
ConcReadIssued(i) ==
    /\ fpc = "join"
    /\ range_reads[i].stage = "new"
    /\ \A j \in 1..(i - 1) : range_reads[j].stage # "new"
    /\ range_reads' = [range_reads EXCEPT ![i].stage = "reading"]
    /\ issued' = Append(issued, i)
    /\ UNCHANGED <<blocking, has_runtime, fetch_ranges, completion, fetched,
                   fresult, fpc>>
    /\ UNCHANGED <<mergeVars, fileVars, loadVars, uploadVars,
                   writerVars>>

\* Read i returns its bytes.
ConcReadReturns(i) ==
    /\ fpc = "join"
    /\ range_reads[i].stage = "reading"
    /\ completion' = Append(completion, i)
    /\ ReadsJoined([range_reads EXCEPT
           ![i].stage = "done",
           ![i].data = ReadRange(range_reads[i].range)])
    /\ UNCHANGED <<blocking, has_runtime, fetch_ranges, issued>>
    /\ UNCHANGED <<mergeVars, fileVars, loadVars, uploadVars,
                   writerVars>>

\* Read i fails, after it was issued or at its first poll: .await?
ConcReadFails(i) ==
    /\ fpc = "join"
    /\ \/ /\ range_reads[i].stage = "reading"
          /\ UNCHANGED issued
       \/ /\ range_reads[i].stage = "new"
          /\ \A j \in 1..(i - 1) : range_reads[j].stage # "new"
          /\ issued' = Append(issued, i)
    /\ ReadsJoined([range_reads EXCEPT ![i].stage = "failed"])
    /\ UNCHANGED <<blocking, has_runtime, fetch_ranges, completion>>
    /\ UNCHANGED <<mergeVars, fileVars, loadVars, uploadVars,
                   writerVars>>

\* A call of fetch_byte_ranges on any ranges, duplicated, overlapping and
\* unsorted ones included, on either kind of store, with or without a
\* current runtime.
InitFetch ==
    /\ blocking \in BOOLEAN
    /\ has_runtime \in BOOLEAN
    /\ fetch_ranges \in SeqsUpTo(RangeSet, MaxFetchRanges)
    /\ range_reads = <<>>
    /\ issued = <<>>
    /\ completion = <<>>
    /\ fetched = None
    /\ fresult = "none"
    /\ fpc = "start"
    /\ MergeIdle
    /\ LoadIdle
    /\ UploadIdle
    /\ WriterIdle

NextFetch ==
    \/ FetchByteRanges
    \/ BlockingTaskRuns
    \/ TaskJoinFails
    \/ SeqNext
    \/ SeqReadReturns
    \/ SeqReadFails
    \/ \E i \in 1..Len(range_reads) :
           \/ ConcReadIssued(i)
           \/ ConcReadReturns(i)
           \/ ConcReadFails(i)

SpecFetch == InitFetch /\ [][NextFetch]_vars

\* ------------------------------------------------------------------------
\* WriteCache.upload
\* ------------------------------------------------------------------------

\* The names object_store_manager holds a store for.
Registered == {"s1", "s2"}

\* The values of UploadPart.storage: no store, a registered name, a name the
\* manager does not know.
StorageChoices ==
    {None} \cup {Some(n) : n \in Registered \cup {"unknown1", "unknown2"}}

\* ObjectStoreManager::find
Find(name) == IF name \in Registered THEN Some(name) ELSE None

\* FileId of the k-th file of part p: file ids are unique.
FileIdOf(p, k) == <<p, k>>

\* The bytes the writer of the part stored in the local file.
LocalBytes(file_id) == <<file_id[1], file_id[2], 7>>

\* crate::access_layer::sst_file_path
sst_file_path(region_dir, file_id) == <<region_dir, file_id, ".parquet">>

\* An object of a store.
Object(path, bytes) == [path |-> path, bytes |-> bytes]

\* A transfer future pushed to handles: where it is suspended (stage),
\* whether an operation it awaited has failed (op_failed), and what its
\* writer has been given so far (written).
Handle(path, store) ==
    [path |-> path, store |-> store, stage |-> "new", op_failed |-> FALSE,
     written |-> <<>>]

\* Faulty variant of HandlesOf: every file is pushed twice.
HandlesOfTwice(part, store) ==
    [k \in 1..(2 * Len(part.file_metas)) |->
        Handle(sst_file_path(part.region_dir,
                             part.file_metas[(k + 1) \div 2].file_id),
               store)]

\* The futures pushed for one part, in the order of file_metas.
HandlesOf(part, store) ==
    [k \in 1..Len(part.file_metas) |->
        Handle(sst_file_path(part.region_dir, part.file_metas[k].file_id),
               store)]

\* futures::io::copy(reader, &mut writer); the future is built and dropped
\* without being awaited, so the writer is given nothing.
CopyStatement(source, written) == written

\* Faulty variant of TryJoinAll: the join waits for every future and discards errors.
JoinAllDiscardErrors(hs) ==
    IF \A i \in 1..Len(hs) : hs[i].stage \in {"done", "failed"}
    THEN "Ok"
    ELSE "none"

\* futures::future::try_join_all(handles).await?: the first error ends the
\* join, success needs every future to have completed.
TryJoinAll(hs) ==
    IF \E i \in 1..Len(hs) : hs[i].stage = "failed" THEN "OpenDal"
    ELSE IF \A i \in 1..Len(hs) : hs[i].stage = "done" THEN "Ok"
    ELSE "none"

\* Faulty variant of DropPending: the futures outlive the join, as spawned
\* tasks would.
KeepPending(hs) == hs

\* The futures still held by the join are dropped when it returns.
DropPending(hs) ==
    [i \in 1..Len(hs) |->
        IF hs[i].stage \in {"done", "failed"}
        THEN hs[i]
        ELSE [hs[i] EXCEPT !.stage = "dropped"]]

\* After a future moved: the join's verdict for the new handles.
Joined(hs) ==
    LET outcome == TryJoinAll(hs)
    IN IF outcome = "none"
       THEN /\ handles' = hs
            /\ UNCHANGED <<uresult, upc>>
       ELSE /\ handles' = DropPending(hs)
            /\ uresult' = outcome
            /\ upc' = "done"

\* Faulty variant of ResolvePart: a part without storage goes to the first store.
ResolvePartDefaultStore ==
    /\ upc = "resolve"
    /\ part_idx < Len(parts)
    /\ LET upload_part == parts[part_idx + 1]
           found == IF upload_part.storage = None
                    THEN Some("s1")
                    ELSE Find(Unwrap(upload_part.storage))
       IN IF found = None
          THEN /\ uresult' = "ObjectStoreNotFound"
               /\ not_found' = Unwrap(upload_part.storage)
               /\ upc' = "done"
               /\ UNCHANGED <<handles, part_idx>>
          ELSE /\ handles' = handles \o HandlesOf(upload_part, Unwrap(found))
               /\ part_idx' = part_idx + 1
               /\ UNCHANGED <<uresult, not_found, upc>>
    /\ UNCHANGED <<local_store, remote_stores, parts, local_reads, remote_ops>>
    /\ UNCHANGED <<mergeVars, fileVars, loadVars, fetchVars,
                   writerVars>>

\* Faulty variant of ResolvePart: a part whose store is not found is skipped.
ResolvePartSkipUnknown ==
    /\ upc = "resolve"
    /\ part_idx < Len(parts)
    /\ LET upload_part == parts[part_idx + 1]
       IN IF upload_part.storage = None
             \/ Find(Unwrap(upload_part.storage)) = None
          THEN /\ part_idx' = part_idx + 1
               /\ UNCHANGED handles
          ELSE /\ handles' = handles \o
                      HandlesOf(upload_part,
                                Unwrap(Find(Unwrap(upload_part.storage))))
               /\ part_idx' = part_idx + 1
    /\ UNCHANGED <<uresult, not_found, upc>>
    /\ UNCHANGED <<local_store, remote_stores, parts, local_reads, remote_ops>>
    /\ UNCHANGED <<mergeVars, fileVars, loadVars, fetchVars,
                   writerVars>>

\* One iteration of `for upload_part in upload.parts`: lines 73-111.
ResolvePart ==
    /\ upc = "resolve"
    /\ part_idx < Len(parts)
    /\ LET upload_part == parts[part_idx + 1]
       IN IF upload_part.storage = None
          THEN \* skip if no storage is specified
               /\ part_idx' = part_idx + 1
               /\ UNCHANGED <<handles, uresult, not_found, upc>>
          ELSE LET storage == Unwrap(upload_part.storage)
                   remote_object_store == Find(storage)
               IN IF remote_object_store = None
                  THEN /\ uresult' = "ObjectStoreNotFound"
                       /\ not_found' = storage
                       /\ upc' = "done"
                       /\ UNCHANGED <<handles, part_idx>>
                  ELSE /\ handles' = handles \o
                              HandlesOf(upload_part,
                                        Unwrap(remote_object_store))
                       /\ part_idx' = part_idx + 1
                       /\ UNCHANGED <<uresult, not_found, upc>>
    /\ UNCHANGED <<local_store, remote_stores, parts, local_reads, remote_ops>>
    /\ UNCHANGED <<mergeVars, fileVars, loadVars, fetchVars,
                   writerVars>>

\* Future i is suspended on the operation of the stage and is still held
\* (a dropped future never runs again).
Awaiting(i, stage) ==
    /\ upc \in {"join", "done"}
    /\ handles[i].stage = stage

\* The loop is over: try_join_all(handles) is awaited; with no future it is
\* ready at once.
JoinHandles ==
    /\ upc = "resolve"
    /\ part_idx = Len(parts)
    /\ IF handles = <<>>
       THEN /\ uresult' = TryJoinAll(handles)
            /\ upc' = "done"
       ELSE /\ upc' = "join"
            /\ UNCHANGED uresult
    /\ UNCHANGED <<local_store, remote_stores, parts, part_idx, handles,
                   local_reads, remote_ops, not_found>>
    /\ UNCHANGED <<mergeVars, fileVars, loadVars, fetchVars,
                   writerVars>>

\* Faulty variant of StartTransfer: a future runs as soon as it is pushed,
\* before the loop over the parts is over.
StartTransferEager(i) ==
    /\ upc \in {"resolve", "join"}
    /\ handles[i].stage = "new"
    /\ \A j \in 1..(i - 1) : handles[j].stage # "new"
    /\ local_reads' = local_reads \cup {handles[i].path}
    /\ handles' = [handles EXCEPT ![i].stage = "open_reader"]
    /\ UNCHANGED <<local_store, remote_stores, parts, part_idx, remote_ops,
                   uresult, not_found, upc>>
    /\ UNCHANGED <<mergeVars, fileVars, loadVars, fetchVars,
                   writerVars>>

\* First poll of future i (the join polls its futures in order):
\* self.local_store.reader_with(&path) is issued.
StartTransfer(i) ==
    /\ upc = "join"
    /\ handles[i].stage = "new"
    /\ \A j \in 1..(i - 1) : handles[j].stage # "new"
    /\ local_reads' = local_reads \cup {handles[i].path}
    /\ handles' = [handles EXCEPT ![i].stage = "open_reader"]
    /\ UNCHANGED <<local_store, remote_stores, parts, part_idx, remote_ops,
                   uresult, not_found, upc>>
    /\ UNCHANGED <<mergeVars, fileVars, loadVars, fetchVars,
                   writerVars>>

\* The reader is open: remote_object_store.writer_with(&path).buffer(..) is
\* issued.
ReaderOpened(i) ==
    /\ Awaiting(i, "open_reader")
    /\ remote_ops' = remote_ops \cup
           {<<"writer_with", handles[i].store, handles[i].path>>}
    /\ handles' = [handles EXCEPT ![i].stage = "open_writer"]
    /\ UNCHANGED <<local_store, remote_stores, parts, part_idx, local_reads,
                   uresult, not_found, upc>>
    /\ UNCHANGED <<mergeVars, fileVars, loadVars, fetchVars,
                   writerVars>>

\* Faulty variant of WriterOpened: the local file is moved, not copied.
WriterOpenedMovesFile(i) ==
    /\ Awaiting(i, "open_writer")
    /\ LET source == CHOOSE o \in local_store : o.path = handles[i].path
       IN /\ handles' = [handles EXCEPT
                 ![i].written = CopyStatement(source.bytes, @),
                 ![i].stage = "close"]
          /\ local_store' = local_store \ {source}
    /\ remote_ops' = remote_ops \cup
           {<<"close", handles[i].store, handles[i].path>>}
    /\ UNCHANGED <<remote_stores, parts, part_idx, local_reads, uresult,
                   not_found, upc>>
    /\ UNCHANGED <<mergeVars, fileVars, loadVars, fetchVars,
                   writerVars>>

\* The writer is open: the copy statement, then writer.close() is issued.
WriterOpened(i) ==
    /\ Awaiting(i, "open_writer")
    /\ LET source == CHOOSE o \in local_store : o.path = handles[i].path
       IN handles' = [handles EXCEPT
              ![i].written = CopyStatement(source.bytes, @),
              ![i].stage = "close"]
    /\ remote_ops' = remote_ops \cup
           {<<"close", handles[i].store, handles[i].path>>}
    /\ UNCHANGED <<local_store, remote_stores, parts, part_idx, local_reads,
                   uresult, not_found, upc>>
    /\ UNCHANGED <<mergeVars, fileVars, loadVars, fetchVars,
                   writerVars>>

\* close() returns: the remote object holds what the writer was given; the
\* future completes with Ok(()).
WriterClosed(i) ==
    /\ Awaiting(i, "close")
    /\ remote_stores' =
           [remote_stores EXCEPT ![handles[i].store] =
               {o \in @ : o.path # handles[i].path}
               \cup {Object(handles[i].path, handles[i].written)}]
    /\ Joined([handles EXCEPT ![i].stage = "done"])
    /\ UNCHANGED <<local_store, parts, part_idx, local_reads, remote_ops,
                   not_found>>
    /\ UNCHANGED <<mergeVars, fileVars, loadVars, fetchVars,
                   writerVars>>

\* The futures after a poll of the join in which future i is the first found
\* with a failed operation: it ends with the error; the futures of also,
\* polled after it, are not reached, whether their operation has failed too
\* or not.
FailedAt(i, also) ==
    [j \in 1..Len(handles) |->
        IF j = i THEN [handles[j] EXCEPT !.stage = "failed", !.op_failed = TRUE]
        ELSE IF j \in also THEN [handles[j] EXCEPT !.op_failed = TRUE]
        ELSE handles[j]]

\* The futures polled after future i that are suspended on an operation.
InFlightAfter(i) ==
    {j \in (i + 1)..Len(handles) :
        handles[j].stage \in {"open_reader", "open_writer", "close"}}

\* Faulty variant of TransferFails: the failure removes the objects the
\* call has written so far.
TransferFailsWithCleanup(i) ==
    /\ \E stage \in {"open_reader", "open_writer", "close"} :
           Awaiting(i, stage)
    /\ remote_stores' = [n \in DOMAIN remote_stores |-> {}]
    /\ \E also \in SUBSET InFlightAfter(i) : Joined(FailedAt(i, also))
    /\ UNCHANGED <<local_store, parts, part_idx, local_reads, remote_ops,
                   not_found>>
    /\ UNCHANGED <<mergeVars, fileVars, loadVars, fetchVars,
                   writerVars>>

\* The operation future i awaits has failed and the join polls its futures,
\* in order: .context(error::OpenDalSnafu)? ends future i with the error,
\* the first the poll comes to; operations of futures polled after it may
\* have failed as well.
TransferFails(i) ==
    /\ \E stage \in {"open_reader", "open_writer", "close"} :
           Awaiting(i, stage)
    /\ \E also \in SUBSET InFlightAfter(i) : Joined(FailedAt(i, also))
    /\ UNCHANGED <<local_store, remote_stores, parts, part_idx, local_reads,
                   remote_ops, not_found>>
    /\ UNCHANGED <<mergeVars, fileVars, loadVars, fetchVars,
                   writerVars>>

\* UploadPartWriter::finish for part p with n files.
UploadPart(p, storage, n) ==
    [region_id |-> p,
     region_dir |-> <<"region", p>>,
     file_metas |-> [k \in 1..n |-> [file_id |-> FileIdOf(p, k)]],
     storage |-> storage]

\* The local files the writers of the parts left behind.
LocalFilesOf(ps) ==
    UNION {{Object(sst_file_path(ps[p].region_dir,
                                 ps[p].file_metas[k].file_id),
                   LocalBytes(ps[p].file_metas[k].file_id)) :
                k \in 1..Len(ps[p].file_metas)} :
           p \in 1..Len(ps)}

\* WriteCache::new and a call of upload on parts whose files are in the local
\* store; the remote stores are empty.
InitUpload ==
    /\ \E n \in 0..MaxParts :
         \E st \in [1..n -> StorageChoices], nf \in [1..n -> 0..MaxFiles] :
             parts = [p \in 1..n |-> UploadPart(p, st[p], nf[p])]
    /\ local_store = LocalFilesOf(parts)
    /\ remote_stores = [n \in Registered |-> {}]
    /\ part_idx = 0
    /\ handles = <<>>
    /\ local_reads = {}
    /\ remote_ops = {}
    /\ uresult = "none"
    /\ not_found = ""
    /\ upc = "resolve"
    /\ MergeIdle
    /\ LoadIdle
    /\ FetchIdle
    /\ WriterIdle

NextUpload ==
    \/ ResolvePart
    \/ JoinHandles
    \/ \E i \in 1..Len(handles) :
           \/ StartTransfer(i)
           \/ ReaderOpened(i)
           \/ WriterOpened(i)
           \/ WriterClosed(i)
           \/ TransferFails(i)

SpecUpload == InitUpload /\ [][NextUpload]_vars

\* ------------------------------------------------------------------------
\* UploadPartWriter (write_cache.rs:137-213)

\* Region ids of the metadata a writer is created with, the region
\* directories and the file metas its caller passes.
RegionIds == {1, 2}

RegionDirs == {"data/r1/", "data/r2/"}

WrittenFileMetas == {[file_id |-> FileIdOf(0, k)] : k \in 1..2}

\* The iterators passed to extend_ssts: none, one or two file metas.
FileMetaLists == SeqsUpTo(WrittenFileMetas, 2)

\* The other components while a writer is used.
OthersIdle == MergeIdle /\ LoadIdle /\ FetchIdle /\ UploadIdle

\* UploadPartWriter::new: the writer's fields (capacity is that of the
\* file_metas vector; the local store handle is left out).
UploadPartWriter_new(region_metadata) ==
    [metadata |-> region_metadata,
     region_dir |-> "",
     file_metas |-> <<>>,
     capacity |-> 0,
     storage |-> None]

\* The writer is owned and not finished, and one more call may be made.
Building ==
    /\ wpc = "building"
    /\ Len(writer_calls) < MaxCalls

\* A call is recorded with its argument.
Called(op, arg) ==
    writer_calls' = Append(writer_calls, [op |-> op, arg |-> <<arg>>])

\* with_region_dir: self.region_dir = region_dir
with_region_dir(region_dir) ==
    /\ Building
    /\ part_writer' = [part_writer EXCEPT !.region_dir = region_dir]
    /\ Called("with_region_dir", region_dir)
    /\ UNCHANGED <<finished_part, wpc>>
    /\ UNCHANGED <<mergeVars, fileVars, loadVars, fetchVars, uploadVars>>

\* with_storage: self.storage = storage
with_storage(storage) ==
    /\ Building
    /\ part_writer' = [part_writer EXCEPT !.storage = storage]
    /\ Called("with_storage", storage)
    /\ UNCHANGED <<finished_part, wpc>>
    /\ UNCHANGED <<mergeVars, fileVars, loadVars, fetchVars, uploadVars>>

\* Vec::reserve and the growth of push and extend: room for at least need
\* elements.
Reserved(capacity, need) == IF capacity < need THEN need ELSE capacity

\* reserve_capacity: self.file_metas.reserve(additional)
reserve_capacity(additional) ==
    /\ Building
    /\ part_writer' = [part_writer EXCEPT
           !.capacity = Reserved(part_writer.capacity,
                                 Len(part_writer.file_metas) + additional)]
    /\ Called("reserve_capacity", additional)
    /\ UNCHANGED <<finished_part, wpc>>
    /\ UNCHANGED <<mergeVars, fileVars, loadVars, fetchVars, uploadVars>>

\* Faulty variant of add_sst: the file meta is put in front of the list.
add_sst_front(file_meta) ==
    /\ Building
    /\ part_writer' = [part_writer EXCEPT
           !.file_metas = <<file_meta>> \o part_writer.file_metas,
           !.capacity = Reserved(part_writer.capacity,
                                 Len(part_writer.file_metas) + 1)]
    /\ Called("add_sst", file_meta)
    /\ UNCHANGED <<finished_part, wpc>>
    /\ UNCHANGED <<mergeVars, fileVars, loadVars, fetchVars, uploadVars>>

\* add_sst: self.file_metas.push(file_meta)
add_sst(file_meta) ==
    /\ Building
    /\ part_writer' = [part_writer EXCEPT
           !.file_metas = Append(part_writer.file_metas, file_meta),
           !.capacity = Reserved(part_writer.capacity,
                                 Len(part_writer.file_metas) + 1)]
    /\ Called("add_sst", file_meta)
    /\ UNCHANGED <<finished_part, wpc>>
    /\ UNCHANGED <<mergeVars, fileVars, loadVars, fetchVars, uploadVars>>

\* extend_ssts: self.file_metas.extend(iter)
extend_ssts(iter) ==
    /\ Building
    /\ part_writer' = [part_writer EXCEPT
           !.file_metas = part_writer.file_metas \o iter,
           !.capacity = Reserved(part_writer.capacity,
                                 Len(part_writer.file_metas) + Len(iter))]
    /\ Called("extend_ssts", iter)
    /\ UNCHANGED <<finished_part, wpc>>
    /\ UNCHANGED <<mergeVars, fileVars, loadVars, fetchVars, uploadVars>>

\* written_file_metas: &self.file_metas
written_file_metas == part_writer.file_metas

\* finish consumes the writer and builds the part.
finish ==
    /\ wpc = "building"
    /\ finished_part' = Some([region_id |-> part_writer.metadata.region_id,
                              region_dir |-> part_writer.region_dir,
                              file_metas |-> part_writer.file_metas,
                              storage |-> part_writer.storage])
    /\ wpc' = "finished"
    /\ UNCHANGED <<part_writer, writer_calls>>
    /\ UNCHANGED <<mergeVars, fileVars, loadVars, fetchVars, uploadVars>>

\* A writer just created for the metadata of some region.
InitWriter ==
    /\ \E r \in RegionIds :
           part_writer = UploadPartWriter_new([region_id |-> r])
    /\ writer_calls = <<>>
    /\ finished_part = None
    /\ wpc = "building"
    /\ OthersIdle

NextWriter ==
    \/ \E region_dir \in RegionDirs : with_region_dir(region_dir)
    \/ \E storage \in StorageChoices : with_storage(storage)
    \/ \E additional \in 0..2 : reserve_capacity(additional)
    \/ \E file_meta \in WrittenFileMetas : add_sst(file_meta)
    \/ \E iter \in FileMetaLists : extend_ssts(iter)
    \/ finish

SpecWriter == InitWriter /\ [][NextWriter]_vars

\* File lengths: tiny files around the footer size, and files around the
\* prefetch window and around window + footer.
FileSizes ==
    (0..(FOOTER_SIZE + MaxNear))
    \cup {DEFAULT_PREFETCH_SIZE + d : d \in (0 - MaxNear)..MaxNear}
    \cup {DEFAULT_PREFETCH_SIZE + FOOTER_SIZE + MaxNear}

\* Metadata lengths a footer can declare: tiny ones, and ones around the
\* prefetch window less the footer.
DeclaredLens ==
    (0..MaxNear)
    \cup {DEFAULT_PREFETCH_SIZE - FOOTER_SIZE + d : d \in (0 - MaxNear)..MaxNear}

\* MetadataLoader::new on a file of the store; a hint, when given, is the
\* file's length.
InitLoad ==
    /\ actual_size \in FileSizes
    /\ footer_valid \in BOOLEAN
    /\ declared_len \in DeclaredLens
    /\ metadata_valid \in BOOLEAN
    /\ hint \in {None, Some(actual_size)}
    /\ file_size = 0
    /\ buffer = <<>>
    /\ data = <<>>
    /\ reads = <<>>
    /\ stats = 0
    /\ result = "none"
    /\ reason = ""
    /\ io_failed = "none"
    /\ lpc = "start"
    /\ metadata = None
    /\ err_file = None
    /\ MergeIdle
    /\ FetchIdle
    /\ UploadIdle
    /\ WriterIdle

NextLoad ==
    \/ LoadWithHint
    \/ LoadStat
    \/ StatFails
    \/ StatReturns
    \/ FirstReadFails
    \/ FirstReadReturns
    \/ SecondReadFails
    \/ SecondReadReturns

SpecLoad == InitLoad /\ [][NextLoad]_vars

\* The two operations that work on stored files, each called on its own:
\* a call of WriteCache.upload or a call of MetadataLoader.load.
InitCache == InitUpload \/ InitLoad

NextCache == NextUpload \/ NextLoad

SpecCache == InitCache /\ [][NextCache]_vars

\* Calls of test_merge_ranges: merge_ranges(&[0..1, 2..72], 1, 4) and
\* merge_ranges(&[0..1, 5..6, 7..9, 2..3, 4..6], 1, 1).
TestCalls ==
    {[raw_ranges |-> <<Range(0, 1), Range(2, 72)>>,
      coalesce |-> 1, max_range_size |-> 4],
     [raw_ranges |-> <<Range(0, 1), Range(5, 6), Range(7, 9), Range(2, 3),
                       Range(4, 6)>>,
      coalesce |-> 1, max_range_size |-> 1]}

\* A call of merge_ranges: on any small arguments, or one of the calls of
\* the source's test.
InitMerge ==
    /\ \/ /\ raw_ranges \in SeqsUpTo(RangeSet, MaxRanges)
          /\ coalesce \in 0..MaxPos
          /\ max_range_size \in 0..MaxPos
       \/ \E t \in TestCalls :
              /\ raw_ranges = t.raw_ranges
              /\ coalesce = t.coalesce
              /\ max_range_size = t.max_range_size
    /\ ranges = <<>>
    /\ ret = <<>>
    /\ start_idx = 0
    /\ end_idx = 0
    /\ range_end = 0
    /\ mpc = "call"
    /\ windows = <<>>
    /\ LoadIdle
    /\ FetchIdle
    /\ UploadIdle
    /\ WriterIdle

NextMerge ==
    \/ MergeStart
    \/ OuterLoop
    \/ Absorb
    \/ Emit

SpecMerge == InitMerge /\ [][NextMerge]_vars

\* ------------------------------------------------------------------------
\* Properties of WriteCache.upload
\* ------------------------------------------------------------------------

\* The path derived for the k-th file of part p.
PathOf(p, k) ==
    <<parts[p].region_dir, parts[p].file_metas[k].file_id, ".parquet">>

\* The parts that name a store, and those that name one nobody registered.
PartsWithStore == {p \in 1..Len(parts) : parts[p].storage # <<>>}

PartsUnknownStore ==
    {p \in PartsWithStore : parts[p].storage[1] \notin {"s1", "s2"}}

\* Some remote store holds an object at the path.
InSomeRemote(path) ==
    \E n \in DOMAIN remote_stores : \E o \in remote_stores[n] : o.path = path

\* Some remote operation was issued on the path.
RemoteOpOn(path) == \E op \in remote_ops : op[3] = path

\* C1: after upload returned success, every file of every part that names a
\* store exists in that store at its derived path with the bytes of the local
\* original.
C1_RemoteEqualsLocal ==
    (upc = "done" /\ uresult = "Ok") =>
        \A p \in PartsWithStore : \A k \in 1..Len(parts[p].file_metas) :
            \E o \in remote_stores[parts[p].storage[1]] :
                /\ o.path = PathOf(p, k)
                /\ \E l \in local_store : l.path = o.path /\ l.bytes = o.bytes

\* C2: upload returns success only if every transfer of the call completed
\* successfully; as soon as a transfer has failed the call has returned an
\* error.
C2_SuccessOnlyIfAllTransfersSucceed ==
    /\ uresult = "Ok" =>
           \A i \in 1..Len(handles) : handles[i].stage = "done"
    /\ (\E i \in 1..Len(handles) : handles[i].stage = "failed") =>
           (upc = "done" /\ uresult = "OpenDal")
    /\ upc = "done" <=> uresult # "none"

\* A call with two transfers of which exactly one failed, after the other
\* had completed: the call returned the error.
C2_Witness ==
    /\ upc = "done"
    /\ uresult = "OpenDal"
    /\ Len(handles) = 2
    /\ \E i, j \in 1..2 :
           handles[i].stage = "failed" /\ handles[j].stage = "done"

\* C3: an Upload with a part whose store name is not registered fails with
\* ObjectStoreNotFound carrying that name (the first such part's, in list
\* order), and no file of such a part is read locally, written remotely or
\* present in any store.
C3_UnknownStoreFails ==
    PartsUnknownStore # {} =>
        /\ upc = "done" =>
               /\ uresult = "ObjectStoreNotFound"
               /\ \E p \in PartsUnknownStore :
                      /\ \A q \in PartsUnknownStore : p <= q
                      /\ not_found = parts[p].storage[1]
        /\ \A p \in PartsUnknownStore : \A k \in 1..Len(parts[p].file_metas) :
               /\ PathOf(p, k) \notin local_reads
               /\ ~RemoteOpOn(PathOf(p, k))
               /\ ~InSomeRemote(PathOf(p, k))
               /\ \A i \in 1..Len(handles) : handles[i].path # PathOf(p, k)

\* A call that failed on the second part's unregistered store, both parts
\* holding a file.
C3_Witness ==
    /\ upc = "done"
    /\ uresult = "ObjectStoreNotFound"
    /\ not_found = "unknown2"
    /\ Len(parts) = 2
    /\ parts[1].storage = <<"s1">>
    /\ parts[1].file_metas # <<>>
    /\ parts[2].file_metas # <<>>

\* C4: a part with no target store causes no local read, no remote operation
\* and no error; an Upload whose parts all have no target store (or with no
\* part) performs no I/O at all and succeeds.
C4_NoStoragePartSkipped ==
    /\ \A p \in (1..Len(parts)) \ PartsWithStore :
           \A k \in 1..Len(parts[p].file_metas) :
               /\ PathOf(p, k) \notin local_reads
               /\ ~RemoteOpOn(PathOf(p, k))
               /\ ~InSomeRemote(PathOf(p, k))
               /\ \A i \in 1..Len(handles) : handles[i].path # PathOf(p, k)
    /\ PartsWithStore = {} =>
           /\ handles = <<>>
           /\ local_reads = {}
           /\ remote_ops = {}
           /\ \A n \in DOMAIN remote_stores : remote_stores[n] = {}
           /\ uresult \in {"none", "Ok"}
           /\ upc = "done" => uresult = "Ok"

\* A successful call whose only parts have no target store and hold files.
C4_Witness ==
    /\ upc = "done"
    /\ uresult = "Ok"
    /\ Len(parts) = 2
    /\ PartsWithStore = {}
    /\ \A p \in 1..2 : parts[p].file_metas # <<>>
    /\ remote_ops = {}

\* C26: when some part names an unregistered store, the call starts no
\* transfer: no local file is read, no remote operation is issued and no
\* remote object exists, for any part; the futures built for the parts
\* resolved before the failing one are never polled, and the call ends with
\* the lookup failure.
C26_UnknownStoreStartsNothing ==
    PartsUnknownStore # {} =>
        /\ local_reads = {}
        /\ remote_ops = {}
        /\ \A n \in DOMAIN remote_stores : remote_stores[n] = {}
        /\ \A i \in 1..Len(handles) : handles[i].stage = "new"
        /\ upc # "join"
        /\ uresult \in {"none", "ObjectStoreNotFound"}

\* A call that failed on its second part's unregistered store after it had
\* built the future of the first part's file, which stays unpolled.
C26_Witness ==
    /\ upc = "done"
    /\ uresult = "ObjectStoreNotFound"
    /\ Len(parts) = 2
    /\ parts[1].storage = <<"s1">>
    /\ Len(handles) = Len(parts[1].file_metas)
    /\ handles # <<>>
    /\ handles[1].stage = "new"
    /\ local_reads = {}

\* The transfers that have ended, with success or failure, or were dropped.
Finished(i) == handles[i].stage \in {"done", "failed", "dropped"}

\* The object transfer i wrote is in its store.
Uploaded(i) ==
    \E o \in remote_stores[handles[i].store] : o.path = handles[i].path

\* No object of a remote store is removed by the step.
NoObjectRemoved ==
    \A n \in DOMAIN remote_stores : \A o \in remote_stores[n] :
        \E q \in remote_stores'[n] : q.path = o.path

\* C16 as stated: after a transfer failed and upload returned its error, no
\* other transfer of the call has been cancelled.
C16_OthersNotCancelled ==
    (upc = "done" /\ uresult = "OpenDal") =>
        \A i \in 1..Len(handles) : handles[i].stage # "dropped"

\* C16: the failure of one transfer ends the call with that error; the
\* transfers that had completed keep their remote object, every transfer
\* that had not completed is dropped with the join, and after upload has
\* returned no transfer moves and no further operation is issued on either
\* store.
C16_FailureDropsUnfinished ==
    /\ [](uresult = "OpenDal" =>
            /\ upc = "done"
            /\ \A i \in 1..Len(handles) :
                   /\ Finished(i)
                   /\ handles[i].stage = "done" => Uploaded(i))
    /\ [][upc = "done" =>
            /\ handles' = handles
            /\ remote_stores' = remote_stores
            /\ remote_ops' = remote_ops
            /\ local_reads' = local_reads]_vars

\* The second transfer failed while the first had its writer open: the call
\* returned the error, the first transfer was dropped in flight and its file
\* is in no remote store.
C16_Witness ==
    /\ uresult = "OpenDal"
    /\ Len(handles) = 2
    /\ handles[2].stage = "failed"
    /\ handles[1].stage = "dropped"
    /\ ~handles[1].op_failed
    /\ <<"writer_with", handles[1].store, handles[1].path>> \in remote_ops
    /\ ~InSomeRemote(handles[1].path)

\* C17: a transfer's failure is observed only when no failure was observed
\* before it in the call, and the step that observes it returns it as the
\* result of upload, so the error returned is that of the one transfer whose
\* failure was encountered; the objects of the transfers that had completed
\* are in their remote stores, and no step removes an object of a remote
\* store.
C17_FirstFailureReturnedNoCleanup ==
    /\ [](/\ uresult = "OpenDal" =>
              Cardinality({i \in 1..Len(handles) :
                              handles[i].stage = "failed"}) = 1
          /\ \A i \in 1..Len(handles) :
                 handles[i].stage = "done" => Uploaded(i))
    /\ [][/\ \A i \in 1..Len(handles) :
                 (handles[i].stage # "failed" /\ handles'[i].stage = "failed")
                 => /\ \A j \in 1..Len(handles) : handles[j].stage # "failed"
                    /\ uresult = "none"
                    /\ uresult' = "OpenDal"
          /\ NoObjectRemoved]_vars

\* The operations of both transfers of a call failed: upload returned the
\* error of the one the join encountered, the other was dropped with its
\* failure unobserved.
C17_Witness ==
    /\ uresult = "OpenDal"
    /\ Len(handles) = 2
    /\ \A i \in 1..2 : handles[i].op_failed
    /\ \E i, j \in 1..2 :
           handles[i].stage = "failed" /\ handles[j].stage = "dropped"

\* The files the call has to transfer: those of the parts that name a store.
FilesToTransfer ==
    UNION {{<<p, k>> : k \in 1..Len(parts[p].file_metas)} :
           p \in PartsWithStore}

\* Position of a transfer's stage in the order a transfer goes through.
StageRank(stage) ==
    CASE stage = "new" -> 0
      [] stage = "open_reader" -> 1
      [] stage = "open_writer" -> 2
      [] stage = "close" -> 3
      [] OTHER -> 4

\* C18: once the stores of all parts have resolved, the call holds exactly
\* one transfer per file of the parts that name a store, aimed at that
\* part's store; a transfer never goes back to an earlier stage, and one
\* that has ended or was dropped never moves again.
C18_OneTransferPerFileNoRetry ==
    /\ []((PartsUnknownStore = {} /\ upc \in {"join", "done"}) =>
            /\ Len(handles) = Cardinality(FilesToTransfer)
            /\ \A f \in FilesToTransfer :
                   Cardinality({i \in 1..Len(handles) :
                                   /\ handles[i].path = PathOf(f[1], f[2])
                                   /\ handles[i].store =
                                          parts[f[1]].storage[1]}) = 1)
    /\ [][\A i \in 1..Len(handles) :
              /\ i <= Len(handles')
              /\ handles'[i].path = handles[i].path
              /\ StageRank(handles'[i].stage) >= StageRank(handles[i].stage)
              /\ Finished(i) => handles'[i] = handles[i]]_vars

\* Both transfers of a call are in flight at once, each with its writer
\* being opened.
C18_Witness ==
    /\ upc = "join"
    /\ Len(handles) = 2
    /\ \A i \in 1..2 : handles[i].stage = "open_writer"

\* Every file of the Upload is in the local store with the bytes its writer
\* left there.
LocalFilesIntact ==
    \A p \in 1..Len(parts) : \A k \in 1..Len(parts[p].file_metas) :
        \E o \in local_store :
            /\ o.path = PathOf(p, k)
            /\ o.bytes = LocalBytes(parts[p].file_metas[k].file_id)

\* C19: no step of upload changes the local store, and during and after
\* the call, whatever its result, every file of the Upload is in the local
\* store with its original bytes; no step of load changes the file it
\* reads.
C19_LocalStoreAndFileUntouched ==
    /\ [](upc # "idle" => LocalFilesIntact)
    /\ [][/\ local_store' = local_store
          /\ fileVars' = fileVars]_vars

\* A call that failed after one of its two transfers had completed and
\* both local files had been opened for reading: both are still in place.
C19_Witness ==
    /\ upc = "done"
    /\ uresult = "OpenDal"
    /\ Len(handles) = 2
    /\ \E i \in 1..2 : handles[i].stage = "done"
    /\ \A i \in 1..2 : handles[i].path \in local_reads
    /\ LocalFilesIntact

\* ------------------------------------------------------------------------
\* Properties of MetadataLoader.load
\* ------------------------------------------------------------------------

\* C8: one call of load issues at most two range reads and at most one stat:
\* no stat when a file-size hint is supplied, and exactly one otherwise.
C8_AtMostTwoReadsOneStat ==
    lpc # "idle" =>
        /\ Len(reads) <= 2
        /\ stats <= 1
        /\ hint # None => stats = 0
        /\ (hint = None /\ lpc # "start") => stats = 1

\* A finished call without a hint that needed the second read: one stat and
\* two range reads.
C8_Witness ==
    /\ lpc = "done"
    /\ hint = None
    /\ stats = 1
    /\ Len(reads) = 2
    /\ result = "Ok"

\* The file is well formed: it holds a decodable footer whose declared
\* metadata block fits in the file and decodes.
WellFormed ==
    /\ actual_size >= 8
    /\ footer_valid
    /\ declared_len + 8 <= actual_size
    /\ metadata_valid

\* min(64 KiB, file_size)
Window == IF actual_size < 65536 THEN actual_size ELSE 65536

\* C9: for a well-formed file whose size lookup and first read succeed, load
\* issues exactly one range read when metadata_length + 8 <= min(64 KiB,
\* file_size) and exactly two when metadata_length + 8 exceeds the window.
C9_OneOrTwoReads ==
    (lpc = "done" /\ WellFormed /\ io_failed \notin {"stat", "first_read"}) =>
        /\ declared_len + 8 <= Window => Len(reads) = 1
        /\ declared_len + 8 > Window => Len(reads) = 2

\* A finished call on a well-formed file whose metadata region starts one
\* byte before the window: two reads.
C9_Witness ==
    /\ lpc = "done"
    /\ WellFormed
    /\ result = "Ok"
    /\ declared_len + 8 = Window + 1
    /\ Len(reads) = 2

\* C10: on a file smaller than the 8-byte footer load issues no range read and
\* at most the one size lookup, and, once the size is known (from the hint or
\* from the stat), fails with InvalidParquet.
C10_ShortFileRejected ==
    (lpc # "idle" /\ actual_size < 8) =>
        /\ reads = <<>>
        /\ stats <= 1
        /\ lpc \in {"start", "stat", "done"}
        /\ (lpc = "done" /\ io_failed = "none") =>
               /\ result = "InvalidParquet"
               /\ reason = "file size is smaller than footer size"

\* A finished call on a 7-byte file, rejected after the stat.
C10_Witness ==
    /\ lpc = "done"
    /\ actual_size = 7
    /\ stats = 1
    /\ reads = <<>>
    /\ result = "InvalidParquet"

\* The footer of the file is invalid: its last 8 bytes do not decode (bad
\* magic, bad length), or they declare more metadata than the file holds.
InvalidFooter ==
    \/ ~footer_valid
    \/ declared_len + FOOTER_SIZE > actual_size

\* C11: on a file of at least 8 bytes with an invalid footer, load never
\* issues a second range read, and once the first read has returned the call
\* ends with InvalidParquet after exactly one range read.
C11_InvalidFooterOneRead ==
    (actual_size >= FOOTER_SIZE /\ InvalidFooter) =>
        /\ Len(reads) <= 1
        /\ lpc # "second_read"
        /\ (lpc = "done" /\ io_failed = "none") =>
              /\ result = "InvalidParquet"
              /\ Len(reads) = 1
              /\ reason = IF footer_valid
                          THEN "the sum of Metadata length and Footer size is larger than file size"
                          ELSE "failed to decode footer"

\* A valid footer that declares more metadata than the file holds, although
\* the metadata alone would fit, has been rejected after one read.
C11_Witness ==
    /\ lpc = "done"
    /\ footer_valid
    /\ declared_len <= actual_size
    /\ declared_len + FOOTER_SIZE > actual_size
    /\ result = "InvalidParquet"
    /\ Len(reads) = 1

\* The metadata block was handed to decode_metadata: the footer is valid,
\* the declared length fits the file and no I/O failed.
ReachedDecode ==
    /\ lpc = "done"
    /\ io_failed = "none"
    /\ actual_size >= FOOTER_SIZE
    /\ ~InvalidFooter

\* C12: load is all-or-nothing. No metadata value exists before the call
\* ends; it ends either with Ok and the fully decoded metadata of a
\* well-formed file, or with an error and no metadata value; and a metadata
\* block that does not decode, after one read or after two, yields
\* InvalidParquet with the file path and the reason.
C12_AllOrNothing ==
    /\ lpc # "done" => (metadata = None /\ result = "none")
    /\ lpc = "done" =>
          \/ /\ result = "Ok"
             /\ metadata = Some(ParquetMetaData)
             /\ metadata_valid
             /\ footer_valid
          \/ /\ result \in {"OpenDal", "InvalidParquet"}
             /\ metadata = None
    /\ result = "InvalidParquet" => (err_file = Some(file_path) /\ reason # "")
    /\ (ReachedDecode /\ ~metadata_valid) =>
          /\ result = "InvalidParquet"
          /\ reason = "failed to decode metadata"

\* A malformed metadata block has been rejected on the slow path, after the
\* second read.
C12_Witness ==
    /\ ReachedDecode
    /\ ~metadata_valid
    /\ Len(reads) = 2
    /\ result = "InvalidParquet"
    /\ err_file = Some(file_path)
    /\ metadata = None

\* The bytes of the file from lo to hi in file order, as one chunk, and the
\* chunks of a byte string joined where they touch.
RECURSIVE Joined_Chunks(_)
Joined_Chunks(b) ==
    IF Len(b) <= 1 THEN b
    ELSE IF b[1].hi = b[2].lo
    THEN Joined_Chunks(<<[lo |-> b[1].lo, hi |-> b[2].hi]>> \o Tail(Tail(b)))
    ELSE <<b[1]>> \o Joined_Chunks(Tail(b))

\* The last declared_len + 8 bytes of the file.
Tail_Of_File ==
    <<[lo |-> actual_size - (declared_len + FOOTER_SIZE), hi |-> actual_size]>>

\* C24: what the decoder is handed is the last metadata_len + 8 bytes of the
\* file in file order, after one read and after two; on the slow path the
\* second read is the prefix [file_size - (metadata_len + 8), file_size -
\* window) and it is placed before the first window; so the outcome of the
\* decoding is that of the file's metadata block on either path.
C24_DecoderGetsFileTail ==
    ReachedDecode =>
        /\ Joined_Chunks(data) = Tail_Of_File
        /\ Len(reads) = 2 =>
               /\ reads[2].lo = actual_size - (declared_len + FOOTER_SIZE)
               /\ reads[2].hi = actual_size - Window
               /\ data = <<reads[2], reads[1]>>
        /\ Len(reads) = 1 => Len(data) = 1
        /\ result = "Ok" <=> metadata_valid
        /\ metadata_valid => metadata = Some(ParquetMetaData)

\* The slow path has decoded the metadata of a file whose metadata block
\* starts two bytes before the first window.
C24_Witness ==
    /\ ReachedDecode
    /\ Len(reads) = 2
    /\ reads[2].hi - reads[2].lo = 2
    /\ result = "Ok"

\* C29: on a file of at least 8 bytes no offset load computes is negative or
\* beyond the file: the first read is [file_size - min(64 KiB, file_size),
\* file_size) and holds at least 8 bytes; the slice decoded on the fast path
\* starts inside the first read; the second read, when issued, is not empty,
\* starts at or after 0 and ends where the first read starts.
C29_OffsetsWithinFile ==
    actual_size >= FOOTER_SIZE =>
        /\ \A k \in 1..Len(reads) :
               /\ 0 <= reads[k].lo
               /\ reads[k].lo < reads[k].hi
               /\ reads[k].hi <= actual_size
        /\ reads # <<>> =>
               /\ reads[1].hi = actual_size
               /\ reads[1].hi - reads[1].lo =
                      (IF actual_size < 64 * 1024 THEN actual_size
                       ELSE 64 * 1024)
               /\ reads[1].hi - reads[1].lo >= FOOTER_SIZE
        /\ Len(reads) = 2 => reads[2].hi = reads[1].lo
        /\ \A k \in 1..Len(data) :
               /\ 0 <= data[k].lo
               /\ data[k].lo <= data[k].hi
               /\ data[k].hi <= actual_size
        /\ (Len(reads) = 1 /\ data # <<>>) => reads[1].lo <= data[1].lo

\* A second read that starts at offset 0 has been issued on a file larger
\* than the window.
C29_Witness ==
    /\ Len(reads) = 2
    /\ reads[2].lo = 0
    /\ reads[2].hi = reads[1].lo
    /\ actual_size > 64 * 1024

\* ------------------------------------------------------------------------
\* Properties of fetch_byte_ranges
\* ------------------------------------------------------------------------

\* The bytes the file holds in the half-open range r.
BytesIn(r) == [k \in 1..(r.end - r.start) |-> FileByte(r.start + k - 1)]

\* Reads that were issued and have neither returned nor failed.
InFlight == {i \in 1..Len(range_reads) : range_reads[i].stage = "reading"}

\* C13: when fetch_byte_ranges succeeds it returns one buffer per input
\* range, in input order, buffer i holding the bytes of ranges[i]; without
\* success no buffer is returned.
C13_OneBufferPerRange ==
    /\ fresult = "Ok" =>
          /\ fetched # None
          /\ Len(Unwrap(fetched)) = Len(fetch_ranges)
          /\ \A i \in 1..Len(fetch_ranges) :
                 Unwrap(fetched)[i] = BytesIn(fetch_ranges[i])
    /\ fresult # "Ok" => fetched = None

\* The concurrent path has succeeded on unsorted, overlapping ranges whose
\* reads completed in the reverse of the input order.
C13_Witness ==
    /\ fresult = "Ok"
    /\ ~blocking
    /\ fetch_ranges = <<Range(1, 2), Range(0, 2)>>
    /\ completion = <<2, 1>>

\* C14 as stated: on a store that is not blocking-capable the call returns
\* only after every read has completed, with success or with failure.
C14_WaitsForAllReads ==
    (~blocking /\ fpc = "done") =>
        \A i \in 1..Len(range_reads) :
            range_reads[i].stage \in {"done", "failed"}

\* C14: on a store that is not blocking-capable each range gets at most one
\* read, issued in input order without waiting for earlier reads; the call
\* succeeds only after every read was issued and returned; the first read
\* that fails ends the call with its error at once, and the reads that have
\* not completed by then are dropped.
C14_FailFastJoin ==
    ~blocking =>
        /\ fresult \in {"none", "Ok", "Err"}
        /\ Len(issued) <= Len(fetch_ranges)
        /\ \A k \in 1..Len(issued) : issued[k] = k
        /\ fpc = "join" =>
              \A i \in 1..Len(range_reads) :
                  range_reads[i].stage \in {"new", "reading", "done"}
        /\ fresult = "Ok" =>
              /\ Len(issued) = Len(fetch_ranges)
              /\ \A i \in 1..Len(range_reads) : range_reads[i].stage = "done"
        /\ (\E i \in 1..Len(range_reads) : range_reads[i].stage = "failed") =>
              /\ fresult = "Err"
              /\ fpc = "done"
        /\ fresult = "Err" =>
              /\ Cardinality({i \in 1..Len(range_reads) :
                                 range_reads[i].stage = "failed"}) = 1
              /\ \A i \in 1..Len(range_reads) :
                     range_reads[i].stage \in {"done", "failed", "dropped"}

\* The second read failed while the first was still in flight: the call has
\* failed and the first read was dropped.
C14_Witness ==
    /\ ~blocking
    /\ fresult = "Err"
    /\ issued = <<1, 2>>
    /\ range_reads[1].stage = "dropped"
    /\ range_reads[2].stage = "failed"

\* C15: on a blocking-capable store, with or without a current runtime, at
\* most one range read is in flight, reads are issued in input order, and a
\* read is issued only after every read before it has returned.
C15_OneAtATimeInOrder ==
    blocking =>
        /\ Cardinality(InFlight) <= 1
        /\ \A k \in 1..Len(issued) : issued[k] = k
        /\ \A i \in 1..Len(range_reads) :
               range_reads[i].stage # "new" =>
                   \A j \in 1..(i - 1) : range_reads[j].stage = "done"

\* On the blocking pool the second read is in flight after the first has
\* returned.
C15_Witness ==
    /\ blocking
    /\ has_runtime
    /\ Len(range_reads) = 2
    /\ range_reads[1].stage = "done"
    /\ range_reads[2].stage = "reading"
    /\ completion = <<1>>

\* The reads of the call that failed.
FailedReads == {i \in 1..Len(range_reads) : range_reads[i].stage = "failed"}

\* C28: on a blocking store the call stops at the first read that fails:
\* the reads before it have returned, no range after it in input order is
\* ever read, and the call ends with that read's error and no buffers; the
\* call fails with a read error only when a read failed; when the blocking
\* task itself fails the call ends with the Unexpected error, no read
\* having been made.
C28_SeqStopsAtFirstFailure ==
    blocking =>
        /\ \A i \in FailedReads :
               /\ FailedReads = {i}
               /\ fpc = "done"
               /\ fresult = "Err"
               /\ fetched = <<>>
               /\ \A j \in 1..(i - 1) : range_reads[j].stage = "done"
               /\ \A j \in (i + 1)..Len(range_reads) :
                      range_reads[j].stage = "new"
               /\ issued = [k \in 1..i |-> k]
        /\ fresult = "Err" => FailedReads # {}
        /\ fresult = "Unexpected" =>
               /\ has_runtime
               /\ fpc = "done"
               /\ issued = <<>>
               /\ fetched = <<>>
        /\ fresult \in {"none", "Ok", "Err", "Unexpected"}

\* A call on two ranges of a blocking store whose first read failed: the
\* second range was never read.
C28_Witness ==
    /\ blocking
    /\ Len(range_reads) = 2
    /\ range_reads[1].stage = "failed"
    /\ range_reads[2].stage = "new"
    /\ fpc = "done"
    /\ fresult = "Err"

\* ------------------------------------------------------------------------
\* Properties of merge_ranges
\* ------------------------------------------------------------------------

\* The bytes covered by a list of ranges.
Covered(s) ==
    {b \in 0..MaxPos : \E i \in 1..Len(s) : s[i].start <= b /\ b < s[i].end}

\* Two ranges share at least one byte.
Overlap(a, b) ==
    \E x \in 0..MaxPos :
        a.start <= x /\ x < a.end /\ b.start <= x /\ x < b.end

Span(r) == r.end - r.start

SortedByStart(s) == \A i \in 1..(Len(s) - 1) : s[i].start <= s[i + 1].start

\* C5 (as stated): for max_span > 0 the bytes covered by the output equal the
\* bytes covered by the input.
C5_CoverageEqual ==
    (mpc = "done" /\ max_range_size > 0) => Covered(ret) = Covered(raw_ranges)

\* C5 (amended): the output covers every byte the input covers and nothing
\* before the smallest start or after the largest end of the input; the two
\* coverages are equal when coalesce = 0. With coalesce > 0 the output also
\* covers the bytes of the gaps it bridged.
C5_CoverageSuperset ==
    mpc = "done" =>
        /\ Covered(raw_ranges) \subseteq Covered(ret)
        /\ \A b \in Covered(ret) :
               \E i, j \in 1..Len(raw_ranges) :
                   raw_ranges[i].start <= b /\ b < raw_ranges[j].end
        /\ coalesce = 0 => Covered(ret) = Covered(raw_ranges)

\* A finished merge that bridged a gap: the output covers a byte no input
\* range covers.
C5_Witness ==
    /\ mpc = "done"
    /\ coalesce > 0
    /\ Len(ret) < Len(raw_ranges)
    /\ Covered(ret) # Covered(raw_ranges)
    /\ Covered(raw_ranges) \subseteq Covered(ret)

\* r is an input range whose own span exceeds max_range_size.
OversizedInput(r) ==
    /\ \E k \in 1..Len(raw_ranges) : raw_ranges[k] = r
    /\ Span(r) > max_range_size

\* C6 (as stated): the output is sorted by start, and two output ranges
\* overlap only if one of them is an input range whose own span exceeds
\* max_range_size.
C6_OverlapOnlyOversizedInput ==
    (mpc = "done" /\ max_range_size > 0) =>
        /\ SortedByStart(ret)
        /\ \A i, j \in 1..Len(ret) :
               (i < j /\ Overlap(ret[i], ret[j])) =>
                   (OversizedInput(ret[i]) \/ OversizedInput(ret[j]))

\* C6 (amended): the output is sorted by start, and two output ranges overlap
\* only if the earlier one spans more than max_range_size, whether it is a
\* single input range or a window merged from several.
C6_OverlapOnlyAfterOversizedWindow ==
    mpc = "done" =>
        /\ SortedByStart(ret)
        /\ \A i, j \in 1..Len(ret) :
               (i < j /\ Overlap(ret[i], ret[j])) =>
                   Span(ret[i]) > max_range_size

\* A finished merge with two overlapping output ranges, the earlier one a
\* window merged from several input ranges.
C6_Witness ==
    /\ mpc = "done"
    /\ \E i, j \in 1..Len(ret) :
           /\ i < j
           /\ Overlap(ret[i], ret[j])
           /\ ~OversizedInput(ret[i])
           /\ ~OversizedInput(ret[j])

\* The inner loop is about to test the candidate ranges[end_idx].
AtCandidate == mpc = "inner" /\ end_idx # Len(ranges)

\* The step absorbed the candidate into the current window.
Absorbed ==
    /\ mpc' = "inner"
    /\ end_idx' = end_idx + 1
    /\ start_idx' = start_idx
    /\ ret' = ret

\* The step emitted the current window and started a new one at the candidate.
EmittedAndRestarted ==
    /\ mpc' = "outer"
    /\ ret' = Append(ret, Range(ranges[start_idx + 1].start, range_end))
    /\ start_idx' = end_idx

\* candidate.start minus the window's end is <= coalesce; a non-positive gap
\* passes.
GapTest == ranges[end_idx + 1].start - range_end <= coalesce

\* C7 (as stated): the candidate is absorbed iff the gap test passes and the
\* window's span after absorbing is <= max_range_size; otherwise the window
\* is emitted and a new one starts at the candidate.
C7_AbsorbIffSpanAfter ==
    [][(AtCandidate /\ max_range_size > 0) =>
          IF /\ GapTest
             /\ range_end - ranges[start_idx + 1].start <= max_range_size
             /\ ranges[end_idx + 1].end - ranges[start_idx + 1].start
                    <= max_range_size
          THEN Absorbed
          ELSE EmittedAndRestarted]_vars

\* C7 (amended): the candidate is absorbed iff the gap test passes and the
\* window's span before absorbing is <= max_range_size; the window end
\* becomes the maximum end seen so far; otherwise the window is emitted and
\* a new one starts at the candidate.
C7_AbsorbIffSpanBefore ==
    [][AtCandidate =>
          IF /\ GapTest
             /\ range_end - ranges[start_idx + 1].start <= max_range_size
          THEN /\ Absorbed
               /\ range_end' = IF ranges[end_idx + 1].end > range_end
                               THEN ranges[end_idx + 1].end
                               ELSE range_end
          ELSE EmittedAndRestarted]_vars

\* A window that absorbed a candidate and now spans more than max_range_size.
C7_Witness ==
    /\ mpc = "inner"
    /\ end_idx > start_idx + 1
    /\ range_end - ranges[start_idx + 1].start > max_range_size
    /\ ranges[start_idx + 1].end - ranges[start_idx + 1].start
           <= max_range_size

\* The range's own span exceeds max_range_size.
Oversized(r) == r.end - r.start > max_range_size

\* The sorted ranges that went into the k-th element of ret: the first, that
\* started the window, and those the inner loop absorbed.
MembersOf(k) == (windows[k].start_idx + 1)..windows[k].end_idx

\* The end of the k-th window just before ranges[i] was absorbed into it.
EndBefore(k, i) ==
    LET ends == {ranges[j].end : j \in (windows[k].start_idx + 1)..(i - 1)}
    IN CHOOSE m \in ends : \A e \in ends : m >= e

\* C20 as stated: every over-sized input range is an element of the output
\* by itself, equal to the range, with no other range in its window.
C20_OversizedAlwaysOwnWindow ==
    (mpc = "done" /\ max_range_size > 0) =>
        \A k \in 1..Len(windows) : \A i \in MembersOf(k) :
            Oversized(ranges[i]) =>
                /\ MembersOf(k) = {i}
                /\ ret[k] = ranges[i]

\* C20: no input range is split, each lies within the one output range of
\* its window; an over-sized range that starts a window absorbs nothing and
\* is emitted equal to itself; an over-sized range is absorbed into an
\* earlier window only when that window was within max_range_size before
\* it.
C20_OversizedFirstAloneNeverSplit ==
    /\ Len(windows) = Len(ret)
    /\ \A k \in 1..Len(windows) :
           /\ \A i \in MembersOf(k) :
                  /\ ret[k].start <= ranges[i].start
                  /\ ranges[i].end <= ret[k].end
           /\ Oversized(ranges[windows[k].start_idx + 1]) =>
                  /\ MembersOf(k) = {windows[k].start_idx + 1}
                  /\ ret[k] = ranges[windows[k].start_idx + 1]
           /\ \A i \in MembersOf(k) \ {windows[k].start_idx + 1} :
                  EndBefore(k, i) - ret[k].start <= max_range_size
           /\ k < Len(windows) =>
                  windows[k + 1].start_idx = windows[k].end_idx
    /\ windows # <<>> => windows[1].start_idx = 0
    /\ (mpc = "done" /\ windows # <<>>) =>
           windows[Len(windows)].end_idx = Len(ranges)

\* An over-sized range started a window and was emitted as itself although
\* the next range lies inside it; that range got a window of its own.
C20_Witness ==
    /\ mpc = "done"
    /\ max_range_size = 1
    /\ ranges = <<Range(0, 2), Range(1, 1)>>
    /\ ret = <<Range(0, 2), Range(1, 1)>>

\* C21: whatever order the sort leaves the ranges with equal start in, the
\* output of merge_ranges is the same list.
C21_OutputIndependentOfTieOrder ==
    (mpc = "done" /\ max_range_size > 0) =>
        \A rs \in SortUnstableByStart(raw_ranges) : MergeSorted(rs) = ret

\* C22: merge_ranges returns the empty list on the empty list and the list
\* of r alone on a single range r, whatever coalesce and max_range_size are.
C22_EmptyAndSingle ==
    mpc = "done" =>
        /\ raw_ranges = <<>> => ret = <<>>
        /\ Len(raw_ranges) = 1 => ret = <<raw_ranges[1]>>

\* A single range longer than max_range_size = 0 has been returned unchanged.
C22_Witness ==
    /\ mpc = "done"
    /\ raw_ranges = <<Range(0, 2)>>
    /\ max_range_size = 0
    /\ ret = <<Range(0, 2)>>

\* The first call of TestCalls, the second.
IsTestCall(raw, gap, cap) ==
    /\ raw_ranges = raw
    /\ coalesce = gap
    /\ max_range_size = cap

\* C23: the cap is tested on the window before the candidate joins it. Every
\* absorbed range met a window whose span was <= max_range_size and whose
\* end was within coalesce of its start; a window that was left with a
\* candidate behind it had a span > max_range_size or a gap > coalesce to
\* the candidate; so merge([0..1, 2..72], 1, 4) = [0..72] and
\* merge([0..1, 5..6, 7..9, 2..3, 4..6], 1, 1) = [0..3, 4..6, 5..9].
C23_CapTestedBeforeAbsorb ==
    /\ \A k \in 1..Len(windows) :
           /\ \A i \in MembersOf(k) \ {windows[k].start_idx + 1} :
                  /\ EndBefore(k, i) - ret[k].start <= max_range_size
                  /\ ranges[i].start - EndBefore(k, i) <= coalesce
           /\ windows[k].end_idx < Len(ranges) =>
                  \/ ret[k].end - ret[k].start > max_range_size
                  \/ ranges[windows[k].end_idx + 1].start - ret[k].end
                         > coalesce
    /\ (mpc = "done" /\ IsTestCall(<<Range(0, 1), Range(2, 72)>>, 1, 4)) =>
           ret = <<Range(0, 72)>>
    /\ (mpc = "done" /\ IsTestCall(<<Range(0, 1), Range(5, 6), Range(7, 9),
                                    Range(2, 3), Range(4, 6)>>, 1, 1)) =>
           ret = <<Range(0, 3), Range(4, 6), Range(5, 9)>>

\* The call merge([0..1, 2..72], 1, 4) has returned one window of 72 bytes.
C23_Witness ==
    /\ mpc = "done"
    /\ IsTestCall(<<Range(0, 1), Range(2, 72)>>, 1, 4)
    /\ ret = <<Range(0, 72)>>

\* C27: every input range lies whole within some output range, every output
\* range starts where some input starts and ends where some input ends, and
\* the output is no longer than the input.
C27_NothingDroppedOrSplit ==
    mpc = "done" =>
        /\ \A i \in 1..Len(raw_ranges) : \E k \in 1..Len(ret) :
               ret[k].start <= raw_ranges[i].start
               /\ raw_ranges[i].end <= ret[k].end
        /\ \A k \in 1..Len(ret) :
               /\ \E i \in 1..Len(raw_ranges) :
                      ret[k].start = raw_ranges[i].start
               /\ \E i \in 1..Len(raw_ranges) : ret[k].end = raw_ranges[i].end
        /\ Len(ret) <= Len(raw_ranges)

\* Three inputs have been merged into two outputs, one of which is none of
\* the inputs.
C27_Witness ==
    /\ mpc = "done"
    /\ Len(raw_ranges) = 3
    /\ Len(ret) = 2
    /\ \E k \in 1..2 : \A i \in 1..3 : ret[k] # raw_ranges[i]

\* The number of steps merge_ranges can still take is at most this.
StepsLeft ==
    IF mpc = "call"
    THEN 3 * Len(raw_ranges) + 6
    ELSE 3 * (Len(ranges) + 1 - end_idx)
         + (CASE mpc = "outer" -> 2 [] mpc = "inner" -> 1 [] OTHER -> 0)

\* C30: merge_ranges terminates: until it has returned a step can be taken,
\* and every step lowers a count that never goes below zero. start_idx and
\* end_idx stay within the sorted list wherever it is indexed and only
\* increase, with end_idx > start_idx in the inner loop; and the windows
\* emitted are consecutive non-empty runs of the sorted list that, at the
\* return, hold each of its ranges exactly once.
C30_TerminatesInBounds ==
    /\ [](/\ mpc # "done" => ENABLED NextMerge
          /\ StepsLeft >= 0
          /\ mpc = "inner" =>
                 /\ start_idx < end_idx
                 /\ end_idx <= Len(ranges)
          /\ mpc = "outer" =>
                 /\ start_idx <= Len(ranges)
                 /\ end_idx = start_idx + 1
          /\ \A k \in 1..Len(windows) :
                 /\ windows[k].start_idx < windows[k].end_idx
                 /\ windows[k].end_idx <= Len(ranges)
                 /\ windows[k].start_idx =
                        IF k = 1 THEN 0 ELSE windows[k - 1].end_idx
          /\ mpc = "done" =>
                 \A i \in 1..Len(ranges) :
                     Cardinality({k \in 1..Len(windows) :
                                     i \in MembersOf(k)}) = 1)
    /\ [][/\ StepsLeft' < StepsLeft
          /\ mpc # "call" =>
                 /\ start_idx' >= start_idx
                 /\ end_idx' >= end_idx
                 /\ ranges' = ranges]_vars

\* A call on three ranges has returned three windows of one range each.
C30_Witness ==
    /\ mpc = "done"
    /\ Len(ranges) = 3
    /\ Len(windows) = 3
    /\ start_idx = 3
    /\ end_idx = 4

\* The file metas call c added.
AddedBy(c) ==
    IF c.op = "add_sst" THEN c.arg
    ELSE IF c.op = "extend_ssts" THEN c.arg[1]
    ELSE <<>>

\* The file metas the first n calls added, in call order.
RECURSIVE AddedUpTo(_)
AddedUpTo(n) ==
    IF n = 0 THEN <<>> ELSE AddedUpTo(n - 1) \o AddedBy(writer_calls[n])

\* The argument of the last call of op, or the value new gave the field.
LastSet(op, initial) ==
    LET set == {k \in 1..Len(writer_calls) : writer_calls[k].op = op}
    IN IF set = {} THEN initial
       ELSE writer_calls[CHOOSE k \in set : \A j \in set : j <= k].arg[1]

\* C25: written_file_metas() is the concatenation, in call order, of the
\* entries add_sst and extend_ssts were given (reserve_capacity, with_storage
\* and with_region_dir add none); finish() returns the part with that list,
\* the region id of the metadata the writer was created with, and the region
\* directory and the store name that were set last; the list changes only by
\* growing at its end.
C25_AppendOnlyThenFinish ==
    /\ [](/\ wpc \in {"building", "finished"} =>
               written_file_metas = AddedUpTo(Len(writer_calls))
          /\ wpc = "finished" =>
               /\ finished_part # <<>>
               /\ finished_part[1].file_metas = AddedUpTo(Len(writer_calls))
               /\ finished_part[1].region_id = part_writer.metadata.region_id
               /\ finished_part[1].region_dir = LastSet("with_region_dir", "")
               /\ finished_part[1].storage = LastSet("with_storage", <<>>)
          /\ wpc = "building" => finished_part = <<>>)
    /\ [][wpc = "building" =>
            /\ Len(part_writer.file_metas') >= Len(part_writer.file_metas)
            /\ \A k \in 1..Len(part_writer.file_metas) :
                   part_writer.file_metas'[k] = part_writer.file_metas[k]
            /\ part_writer.metadata' = part_writer.metadata]_vars

\* A part finished after add_sst, a reserve_capacity and an extend_ssts of
\* two entries: three entries, the first differing from the second.
C25_Witness ==
    /\ wpc = "finished"
    /\ Len(writer_calls) = 3
    /\ writer_calls[1].op = "add_sst"
    /\ writer_calls[2].op = "reserve_capacity"
    /\ writer_calls[3].op = "extend_ssts"
    /\ Len(finished_part[1].file_metas) = 3
    /\ finished_part[1].file_metas[1] # finished_part[1].file_metas[2]

====
